---- MODULE Spec2Model ----
(***************************************************************************)
(* Model of training/data_loader.py: StrokeDataset.__init__, the           *)
(* construction of the list of derivation records (primary_keys) from the  *)
(* sample store, the relation model (symbol_data), the train/validation    *)
(* split, the negation slash cycle, the random augmentation and the sample *)
(* cap.                                                                    *)
(*                                                                         *)
(* Two dataset objects are constructed from the same store and the same    *)
(* arguments, one with train=True and one with train=False, the way a      *)
(* training script builds its training and its validation dataset.  The    *)
(* random module's generator is one global shared by both.                 *)
(***************************************************************************)
EXTENDS Integers, Sequences, FiniteSets, TLC

(***************************************************************************)
(* Bounds of the model.                                                    *)
(***************************************************************************)
\* Largest number of rows of one symbol key in the samples table.
MaxSamples == 2
\* validation_split takes the values k / SplitDen for k in 0..MaxSplitNum.
SplitDen == 5
MaxSplitNum == 3
\* random_seed is drawn from 0..MaxSeed.
MaxSeed == 1
\* sample_limit is None or one of 0..MaxLimit.
MaxLimit == 2
\* The generator's state space and the width of random.randint(0, 2**32 - 1),
\* both scaled down.
RngMod == 64
SeedSpace == 16

(***************************************************************************)
(* Python's None, for the two int | None values (sample_limit and a        *)
(* record's augmentation seed), and for a path without a negation.         *)
(***************************************************************************)
None == -1
NoNegation == "None"

Datasets == {1, 2}

(***************************************************************************)
(* The relation model, symbol_data (handtex.symbol_relations.SymbolData).  *)
(* A glyph "A" with a mirror self-symmetry, its negation "D", the          *)
(* vertical line (similar to "V") and its negation "N".                    *)
(***************************************************************************)
VertKey == "latex2e-OT1-|"

StoredKeys == <<"A", VertKey, "V">>

leaders == <<"A", "D", VertKey, "N">>

get_similarity_group(key) ==
    IF key \in {VertKey, "V"} THEN <<VertKey, "V">> ELSE <<key>>

Reflection == [is_rotation |-> FALSE, angle |-> 90]

Path(key, transformations, negation) ==
    [key |-> key, transformations |-> transformations, negation |-> negation]

all_paths_to_symbol(leader) ==
    CASE leader = "A" -> <<Path("A", <<>>, NoNegation), Path("A", <<Reflection>>, NoNegation)>>
      [] leader = "D" -> <<Path("A", <<>>, "NegD"), Path("A", <<Reflection>>, "NegD")>>
      [] leader = VertKey -> <<Path(VertKey, <<>>, NoNegation), Path("V", <<>>, NoNegation)>>
      [] leader = "N" -> <<Path(VertKey, <<>>, "NegN")>>

all_symbols_to_symbol(leader) ==
    CASE leader = "A" -> {"A"}
      [] leader = "D" -> {"A"}
      [] leader = VertKey -> {VertKey, "V"}
      [] leader = "N" -> {VertKey}

\* The arguments load_primary_keys is called with: a key, or the tuple of
\* keys of the vertical line's similarity group.  A single key k is written
\* as the tuple <<k>>, the form line 124 gives it.
QueryArgs == {<<StoredKeys[i]>> : i \in 1..Len(StoredKeys)} \cup {get_similarity_group(VertKey)}

VARIABLES
    store,                      \* the samples table: store[id] is the row's key
    validation_split,           \* the numerator k of validation_split = k / SplitDen
    sample_limit,
    random_augmentation,
    debug_single_sample_only,
    rng,                        \* the state of the random module's global generator
    ds,                         \* ds[c]: the dataset object c under construction
    rendered,                   \* what the last load_transformed_strokes call returned
    metadata,                   \* the similar* files and the sanity test's progress
    attrs,                      \* a load_dict_to_attrs_safely call: object, data, progress
    amount                      \* augmentation_amount calls: arguments and results

vars == <<store, validation_split, sample_limit, random_augmentation,
          debug_single_sample_only, rng, ds, rendered, metadata, attrs, amount>>

\* The state outside the dataset constructions.
aside == <<rendered, metadata, attrs, amount>>

params == <<store, validation_split, sample_limit, random_augmentation,
            debug_single_sample_only>>

(***************************************************************************)
(* Helpers on sequences.                                                   *)
(***************************************************************************)
Range(s) == {s[i] : i \in 1..Len(s)}

Min(a, b) == IF a < b THEN a ELSE b

\* math.ceil(n * k / d) for naturals (on the model's values the float
\* product n * validation_split rounds up to the same integer).
Ceil(n, d) == (n + d - 1) \div d

RECURSIVE Repeat(_, _)
Repeat(x, n) == IF n = 0 THEN <<>> ELSE <<x>> \o Repeat(x, n - 1)

RECURSIVE SumOver(_, _)
SumOver(f, S) ==
    IF S = {} THEN 0
    ELSE LET x == CHOOSE y \in S : TRUE IN f[x] + SumOver(f, S \ {x})

(***************************************************************************)
(* The generator of the random module, as a deterministic function of its  *)
(* state: random.seed sets the state from the seed, every draw advances    *)
(* it, and what a draw returns is a function of the state it reaches.      *)
(***************************************************************************)
\* No random.seed call: the generator goes on from where it is.
RandomSeedKeep(seed) == rng

RandomSeed(seed) == (7 * seed + 1) % RngMod

RngNext(r) == (5 * r + 3) % RngMod

\* random.choice(samples): an index into samples (1-based here).
RandomChoice(r, n) == ((r \div 4) % n) + 1

\* random.randint(0, 2**32 - 1), scaled to 0..SeedSpace-1.
RandomRandint(r) == (r \div 2) % SeedSpace

(***************************************************************************)
(* augmentation_amount(real_data_count) with the default max_factor = 10   *)
(* and min_factor = 0.2.  The function is floating point (1.2 ** x); these *)
(* are the values int(factor * real_data_count) takes for 0..12.           *)
(***************************************************************************)
AugmentationTable ==
    <<9, 19, 29, 39, 48, 58, 67, 77, 86, 95, 104, 113, 122, 131, 139, 148, 157,
      165, 173, 182, 190, 198, 206, 214, 222, 229, 237, 245, 252, 260, 267, 274,
      281, 288, 295, 302, 309, 316, 322, 329, 335>>

\* An amount that grows with the square of the count.
augmentation_amount_square(real_data_count) == real_data_count * real_data_count

augmentation_amount(real_data_count) ==
    IF real_data_count = 0 THEN 0 ELSE AugmentationTable[real_data_count]

(***************************************************************************)
(* The samples table and load_primary_keys.                                *)
(***************************************************************************)
\* SELECT id FROM samples WHERE key IN (keys) [LIMIT 1]: the ids in rowid order.
Fetch(keys) ==
    LET ids == [i \in 1..Len(store) |-> i]
        rows == SelectSeq(ids, LAMBDA i : store[i] \in Range(keys))
    IN  IF debug_single_sample_only THEN SubSeq(rows, 1, Min(1, Len(rows))) ELSE rows

\* assert validation_split < 0.5
SplitAssertion == 2 * validation_split < SplitDen

\* A split index rounded down instead of up.
SplitIdxFloor(n) == (n * validation_split) \div SplitDen

\* split_idx = ceil(len(cursor_samples) * validation_split)
SplitIdx(n) == Ceil(n * validation_split, SplitDen)

\* A training slice that starts one row early.
load_primary_keys_overlap(train, keys) ==
    LET cursor_samples == Fetch(keys)
        split_idx == SplitIdx(Len(cursor_samples))
    IN  IF Len(cursor_samples) = 1 THEN [ok |-> TRUE, rows |-> cursor_samples]
        ELSE IF ~SplitAssertion THEN [ok |-> FALSE, rows |-> <<>>]
        ELSE IF train
             THEN [ok |-> TRUE, rows |-> IF split_idx = 0 THEN cursor_samples
                                         ELSE SubSeq(cursor_samples, split_idx, Len(cursor_samples))]
             ELSE [ok |-> TRUE, rows |-> SubSeq(cursor_samples, 1, split_idx)]

\* A training view that is not split at all.
load_primary_keys_train_all(train, keys) ==
    LET cursor_samples == Fetch(keys)
        split_idx == SplitIdx(Len(cursor_samples))
    IN  IF Len(cursor_samples) = 1 THEN [ok |-> TRUE, rows |-> cursor_samples]
        ELSE IF ~SplitAssertion THEN [ok |-> FALSE, rows |-> <<>>]
        ELSE IF train
             THEN [ok |-> TRUE, rows |-> cursor_samples]
             ELSE [ok |-> TRUE, rows |-> SubSeq(cursor_samples, 1, split_idx)]

\* The assertion made before the single-sample return.
load_primary_keys_assert_first(train, keys) ==
    LET cursor_samples == Fetch(keys)
        split_idx == SplitIdx(Len(cursor_samples))
    IN  IF ~SplitAssertion THEN [ok |-> FALSE, rows |-> <<>>]
        ELSE IF Len(cursor_samples) = 1 THEN [ok |-> TRUE, rows |-> cursor_samples]
        ELSE IF train
             THEN [ok |-> TRUE, rows |-> SubSeq(cursor_samples, split_idx + 1, Len(cursor_samples))]
             ELSE [ok |-> TRUE, rows |-> SubSeq(cursor_samples, 1, split_idx)]

\* A split without the assertion.
load_primary_keys_unchecked(train, keys) ==
    LET cursor_samples == Fetch(keys)
        split_idx == SplitIdx(Len(cursor_samples))
    IN  IF Len(cursor_samples) = 1 THEN [ok |-> TRUE, rows |-> cursor_samples]
        ELSE IF train
             THEN [ok |-> TRUE, rows |-> SubSeq(cursor_samples, split_idx + 1, Len(cursor_samples))]
             ELSE [ok |-> TRUE, rows |-> SubSeq(cursor_samples, 1, split_idx)]

\* The body of load_primary_keys: [ok |-> FALSE] is the AssertionError.
load_primary_keys(train, keys) ==
    LET cursor_samples == Fetch(keys)
        split_idx == SplitIdx(Len(cursor_samples))
    IN  IF Len(cursor_samples) = 1 THEN [ok |-> TRUE, rows |-> cursor_samples]
        ELSE IF ~SplitAssertion THEN [ok |-> FALSE, rows |-> <<>>]
        ELSE IF train
             THEN [ok |-> TRUE, rows |-> SubSeq(cursor_samples, split_idx + 1, Len(cursor_samples))]
             ELSE [ok |-> TRUE, rows |-> SubSeq(cursor_samples, 1, split_idx)]

\* @cache: a call with an argument seen before returns the stored result.
CachedLoad(d, keys) ==
    IF d.cache[keys].loaded THEN [ok |-> TRUE, rows |-> d.cache[keys].rows]
    ELSE load_primary_keys(d.train, keys)

\* The cache after the calls with the arguments in S have returned.
CacheAfter(d, S) ==
    [q \in QueryArgs |->
        IF q \in S /\ CachedLoad(d, q).ok
        THEN [loaded |-> TRUE, rows |-> CachedLoad(d, q).rows]
        ELSE d.cache[q]]

EmptyCache == [q \in QueryArgs |-> [loaded |-> FALSE, rows |-> <<>>]]

(***************************************************************************)
(* The dataset object before __init__ has run (lines 99-111).              *)
(***************************************************************************)
NewDataset(train, random_seed) ==
    [train |-> train, random_seed |-> random_seed, pc |-> "new",
     cache |-> EmptyCache, negation_cycle |-> <<>>, cycle_pos |-> 0,
     leader_idx |-> 1, path_idx |-> 1, samples |-> <<>>, emitted |-> <<>>,
     real_data_count |-> 0, augmentation_count |-> 0,
     primary_keys |-> <<>>, symbol_keys |-> <<>>,
     error |-> "", error_key |-> <<>>]

\* No load_transformed_strokes call, sanity test, load_dict_to_attrs_safely
\* call or augmentation_amount call has been made.
IdleRendered == [dataset |-> 0, idx |-> 0, stroke_data |-> <<>>, symbol_key |-> ""]
IdleMetadata ==
    [pc |-> "idle", files |-> <<>>, file_idx |-> 0, global_keys |-> {}, error |-> ""]
IdleAttrs ==
    [pc |-> "idle", data |-> <<>>, skip_attrs |-> {}, before |-> <<>>, dataclass |-> <<>>,
     position |-> 0, assigned |-> {}, recoverable_exceptions |-> <<>>]
IdleAmount == [pc |-> "idle", smaller |-> 0, larger |-> 0, amounts |-> <<>>]

IdleAside ==
    /\ rendered = IdleRendered
    /\ metadata = IdleMetadata
    /\ attrs = IdleAttrs
    /\ amount = IdleAmount

StoreOf(nA, nVert, nV) == Repeat("A", nA) \o Repeat(VertKey, nVert) \o Repeat("V", nV)

Init ==
    /\ \E nA \in 0..MaxSamples, nVert \in 0..MaxSamples, nV \in 0..MaxSamples :
          store = StoreOf(nA, nVert, nV)
    /\ validation_split \in 0..MaxSplitNum
    /\ sample_limit \in {None} \cup 0..MaxLimit
    /\ random_augmentation \in BOOLEAN
    /\ debug_single_sample_only \in BOOLEAN
    /\ rng = 0
    /\ \E seed \in 0..MaxSeed :
          ds = [c \in Datasets |-> NewDataset(c = 1, seed)]
    /\ IdleAside

Final == {"done", "failed"}

\* The second dataset is constructed after the first.
Turn(c) == c = 1 \/ ds[1].pc \in Final

Fail(d, error, key) == [d EXCEPT !.pc = "failed", !.error = error, !.error_key = key]

(***************************************************************************)
(* Lines 113-152: random.seed(random_seed), and the cycle over the         *)
(* vertical line group's samples.                                          *)
(***************************************************************************)
Begin(c) ==
    LET d == ds[c]
        vertical_line_keys == get_similarity_group(VertKey)
        loaded == CachedLoad(d, vertical_line_keys)
    IN  /\ Turn(c)
        /\ d.pc = "new"
        /\ rng' = RandomSeed(d.random_seed)
        /\ ds' = [ds EXCEPT ![c] =
                    IF ~loaded.ok
                    THEN Fail(d, "AssertionError: validation_split", vertical_line_keys)
                    ELSE [d EXCEPT !.pc = "leader",
                                   !.cache = CacheAfter(d, {vertical_line_keys}),
                                   !.negation_cycle = loaded.rows,
                                   !.cycle_pos = 0]]
        /\ UNCHANGED <<params, aside>>

(***************************************************************************)
(* Lines 154-173: the next leader; its real_data_count.                    *)
(***************************************************************************)
\* A count taken once per derivation path instead of once per ancestor.
StartLeaderPerPath(c) ==
    LET d == ds[c]
        symbol_key == leaders[d.leader_idx]
        paths == all_paths_to_symbol(symbol_key)
        ancestors == {<<a>> : a \in all_symbols_to_symbol(symbol_key)}
        failing == {q \in ancestors : ~CachedLoad(d, q).ok}
        counts == [i \in 1..Len(paths) |-> Len(CachedLoad(d, <<paths[i].key>>).rows)]
    IN  /\ Turn(c)
        /\ d.pc = "leader"
        /\ \/ /\ failing = {}
              /\ ds' = [ds EXCEPT ![c] =
                          [d EXCEPT !.pc = "paths", !.path_idx = 1, !.samples = <<>>,
                                    !.cache = CacheAfter(d, ancestors),
                                    !.real_data_count = SumOver(counts, 1..Len(paths)),
                                    !.augmentation_count = 0]]
           \/ \E q \in failing :
                 ds' = [ds EXCEPT ![c] = Fail(d, "AssertionError: validation_split", q)]
        /\ UNCHANGED <<params, rng, aside>>

StartLeader(c) ==
    LET d == ds[c]
        symbol_key == leaders[d.leader_idx]
        ancestors == {<<a>> : a \in all_symbols_to_symbol(symbol_key)}
        failing == {q \in ancestors : ~CachedLoad(d, q).ok}
        counts == [q \in ancestors |-> Len(CachedLoad(d, q).rows)]
    IN  /\ Turn(c)
        /\ d.pc = "leader"
        /\ \/ /\ failing = {}
              /\ ds' = [ds EXCEPT ![c] =
                          [d EXCEPT !.pc = "paths", !.path_idx = 1, !.samples = <<>>,
                                    !.cache = CacheAfter(d, ancestors),
                                    !.real_data_count = SumOver(counts, ancestors),
                                    !.augmentation_count = 0]]
           \/ \E q \in failing :
                 ds' = [ds EXCEPT ![c] = Fail(d, "AssertionError: validation_split", q)]
        /\ UNCHANGED <<params, rng, aside>>

(***************************************************************************)
(* Lines 175-193: one derivation path of the leader: a record for every    *)
(* sample of the path's key, zipped with the negation cycle.               *)
(***************************************************************************)
\* A cycle that starts again with every path.
ZipRecordsRestart(rows, path, cycle, pos) ==
    IF cycle = <<>> THEN <<>>
    ELSE [i \in 1..Len(rows) |->
            [key |-> rows[i],
             transformations |-> path.transformations,
             negation |-> path.negation,
             slash_id |-> cycle[((i - 1) % Len(cycle)) + 1],
             seed |-> None]]

\* A cycle that advances with every second record.
ZipRecordsSlow(rows, path, cycle, pos) ==
    IF cycle = <<>> THEN <<>>
    ELSE [i \in 1..Len(rows) |->
            [key |-> rows[i],
             transformations |-> path.transformations,
             negation |-> path.negation,
             slash_id |-> cycle[(((pos + i - 1) \div 2) % Len(cycle)) + 1],
             seed |-> None]]

\* A zip that goes on without a slash sample (zip_longest).
ZipRecordsLongest(rows, path, cycle, pos) ==
    [i \in 1..Len(rows) |->
        [key |-> rows[i],
         transformations |-> path.transformations,
         negation |-> path.negation,
         slash_id |-> IF cycle = <<>> THEN None ELSE cycle[((pos + i - 1) % Len(cycle)) + 1],
         seed |-> None]]

\* zip(load_primary_keys(current_key), negation_cycle): the zip ends with the
\* rows, or at once when the cycle is empty.
ZipRecords(rows, path, cycle, pos) ==
    IF cycle = <<>> THEN <<>>
    ELSE [i \in 1..Len(rows) |->
            [key |-> rows[i],
             transformations |-> path.transformations,
             negation |-> path.negation,
             slash_id |-> cycle[((pos + i - 1) % Len(cycle)) + 1],
             seed |-> None]]

ExtendPath(c) ==
    LET d == ds[c]
        paths == all_paths_to_symbol(leaders[d.leader_idx])
        path == paths[d.path_idx]
        loaded == CachedLoad(d, <<path.key>>)
        new == ZipRecords(loaded.rows, path, d.negation_cycle, d.cycle_pos)
    IN  /\ Turn(c)
        /\ d.pc = "paths"
        /\ ds' = [ds EXCEPT ![c] =
                    IF ~loaded.ok
                    THEN Fail(d, "AssertionError: validation_split", <<path.key>>)
                    ELSE [d EXCEPT !.samples = @ \o new,
                                   !.emitted = @ \o new,
                                   !.cycle_pos = @ + Len(new),
                                   !.cache = CacheAfter(d, {<<path.key>>}),
                                   !.path_idx = @ + 1,
                                   !.pc = IF d.path_idx = Len(paths) THEN "assert" ELSE "paths"]]
        /\ UNCHANGED <<params, rng, aside>>

(***************************************************************************)
(* Line 195: assert samples.                                               *)
(***************************************************************************)
\* No assertion.
SamplesAssertionOff(samples) == TRUE

SamplesAssertion(samples) == samples # <<>>

CheckSamples(c) ==
    LET d == ds[c]
    IN  /\ Turn(c)
        /\ d.pc = "assert"
        /\ ds' = [ds EXCEPT ![c] =
                    IF SamplesAssertion(d.samples)
                    THEN [d EXCEPT !.pc = "augment"]
                    ELSE Fail(d, "AssertionError: No samples found", <<leaders[d.leader_idx]>>)]
        /\ UNCHANGED <<params, rng, aside>>

(***************************************************************************)
(* Lines 197-203: the augmentation loop.  Every slot draws a record of     *)
(* samples (random.choice) and then its seed (random.randint) from the     *)
(* global generator, and appends the copy to samples.                      *)
(***************************************************************************)
\* A copy that keeps the seed of a derived record.
AugmentationSeedNone(r) == None

AugmentationSeed(r) == RandomRandint(r)

\* A loop whose copies get a slash key of their own.
RECURSIVE AugmentLoopFreshSlash(_, _, _)
AugmentLoopFreshSlash(samples, r, n) ==
    IF n = 0 THEN [samples |-> samples, rng |-> r]
    ELSE LET r1 == RngNext(r)
             chosen == samples[RandomChoice(r1, Len(samples))]
             r2 == RngNext(r1)
             copy == [chosen EXCEPT !.seed = AugmentationSeed(r2),
                                    !.slash_id = chosen.slash_id + n]
         IN  AugmentLoopFreshSlash(Append(samples, copy), r2, n - 1)

RECURSIVE AugmentLoop(_, _, _)
AugmentLoop(samples, r, n) ==
    IF n = 0 THEN [samples |-> samples, rng |-> r]
    ELSE LET r1 == RngNext(r)
             chosen == samples[RandomChoice(r1, Len(samples))]
             r2 == RngNext(r1)
             copy == [chosen EXCEPT !.seed = AugmentationSeed(r2)]
         IN  AugmentLoop(Append(samples, copy), r2, n - 1)

Augment(c) ==
    LET d == ds[c]
        augmentation_count == augmentation_amount(d.real_data_count)
        out == AugmentLoop(d.samples, rng, augmentation_count)
    IN  /\ Turn(c)
        /\ d.pc = "augment"
        /\ IF ~random_augmentation
           THEN /\ ds' = [ds EXCEPT ![c] = [d EXCEPT !.pc = "cap"]]
                /\ rng' = rng
           ELSE IF augmentation_count > 0 /\ d.samples = <<>>
           THEN \* random.choice of an empty list raises.
                /\ ds' = [ds EXCEPT ![c] =
                            Fail(d, "IndexError", <<leaders[d.leader_idx]>>)]
                /\ rng' = rng
           ELSE /\ ds' = [ds EXCEPT ![c] =
                            [d EXCEPT !.pc = "cap", !.samples = out.samples,
                                      !.augmentation_count = augmentation_count]]
                /\ rng' = out.rng
        /\ UNCHANGED <<params, aside>>

(***************************************************************************)
(* Lines 205-206: samples = samples[:sample_limit].                        *)
(***************************************************************************)
\* A cap that keeps the last records: samples[-sample_limit:].
TruncateTail(samples, limit) ==
    IF limit = None \/ limit = 0 THEN samples
    ELSE SubSeq(samples, Len(samples) - Min(limit, Len(samples)) + 1, Len(samples))

Truncate(samples, limit) ==
    IF limit = None THEN samples ELSE SubSeq(samples, 1, Min(limit, Len(samples)))

Cap(c) ==
    LET d == ds[c]
    IN  /\ Turn(c)
        /\ d.pc = "cap"
        /\ ds' = [ds EXCEPT ![c] =
                    [d EXCEPT !.pc = "extend", !.samples = Truncate(d.samples, sample_limit)]]
        /\ UNCHANGED <<params, rng, aside>>

(***************************************************************************)
(* Lines 227-230: the leader's records join primary_keys and symbol_keys;  *)
(* after the last leader the construction is complete.                     *)
(***************************************************************************)
ExtendDataset(c) ==
    LET d == ds[c]
        symbol_key == leaders[d.leader_idx]
    IN  /\ Turn(c)
        /\ d.pc = "extend"
        /\ ds' = [ds EXCEPT ![c] =
                    [d EXCEPT !.primary_keys = @ \o d.samples,
                              !.symbol_keys = @ \o Repeat(symbol_key, Len(d.samples)),
                              !.leader_idx = @ + 1,
                              !.pc = IF d.leader_idx = Len(leaders) THEN "done" ELSE "leader"]]
        /\ UNCHANGED <<params, rng, aside>>

Next ==
    \E c \in Datasets :
        \/ Begin(c)
        \/ StartLeader(c)
        \/ ExtendPath(c)
        \/ CheckSamples(c)
        \/ Augment(c)
        \/ Cap(c)
        \/ ExtendDataset(c)

Spec == Init /\ [][Next]_vars

(***************************************************************************)
(* Vocabulary of the properties.                                           *)
(***************************************************************************)
\* All rows of the samples table with one of the keys, whatever the mode.
RawSamples(keys) ==
    SelectSeq([i \in 1..Len(store) |-> i], LAMBDA i : store[i] \in Range(keys))

SourceSymbols == {<<StoredKeys[i]>> : i \in 1..Len(StoredKeys)}

\* What the training construction t and the validation construction v got
\* from load_primary_keys for the argument q.
BothLoaded(t, v, q) ==
    /\ ds[t].train /\ ~ds[v].train
    /\ ds[t].random_seed = ds[v].random_seed
    /\ ds[t].cache[q].loaded /\ ds[v].cache[q].loaded

TrainView(t, q) == ds[t].cache[q].rows
ValidationView(v, q) == ds[v].cache[q].rows

Disjoint(a, b) == Range(a) \cap Range(b) = {}

(***************************************************************************)
(* C1.  As stated: for every source symbol with more than one raw sample   *)
(* and validation_split < 0.5, the training view and the validation view   *)
(* of load_primary_keys are disjoint and their union is the symbol's full  *)
(* sample list.                                                            *)
(***************************************************************************)
C1_Original ==
    \A t, v \in Datasets : \A q \in SourceSymbols :
        (BothLoaded(t, v, q) /\ Len(RawSamples(q)) > 1 /\ SplitAssertion)
        => /\ Disjoint(TrainView(t, q), ValidationView(v, q))
           /\ Range(TrainView(t, q)) \cup Range(ValidationView(v, q)) = Range(RawSamples(q))

\* C1 as amended: the same, when debug_single_sample_only is off (with it the
\* query is limited to one row, which both views return).
C1_SplitDisjointComplementary ==
    \A t, v \in Datasets : \A q \in SourceSymbols :
        (BothLoaded(t, v, q) /\ Len(RawSamples(q)) > 1 /\ SplitAssertion
            /\ ~debug_single_sample_only)
        => /\ Disjoint(TrainView(t, q), ValidationView(v, q))
           /\ Range(TrainView(t, q)) \cup Range(ValidationView(v, q)) = Range(RawSamples(q))

C1_Witness ==
    \E t, v \in Datasets : \E q \in SourceSymbols :
        /\ BothLoaded(t, v, q) /\ ~debug_single_sample_only
        /\ Len(RawSamples(q)) > 1
        /\ TrainView(t, q) # <<>> /\ ValidationView(v, q) # <<>>

(***************************************************************************)
(* C3.  As stated: for a source symbol with n raw samples in primary key   *)
(* order, the validation view is exactly the first                         *)
(* ceil(n * validation_split) samples and the training view exactly the    *)
(* remaining ones.                                                         *)
(***************************************************************************)
C3_Original ==
    \A c \in Datasets : \A q \in QueryArgs :
        ds[c].cache[q].loaded
        => LET all == RawSamples(q)
               k == Ceil(Len(all) * validation_split, SplitDen)
           IN  ds[c].cache[q].rows =
                  IF ds[c].train THEN SubSeq(all, k + 1, Len(all)) ELSE SubSeq(all, 1, k)

\* C3 as amended: the same for the n rows the query returns, when n is not 1
\* (a query that returns one row gives that row to both views).
C3_SplitAtCeil ==
    \A c \in Datasets : \A q \in QueryArgs :
        (ds[c].cache[q].loaded /\ Len(Fetch(q)) # 1)
        => LET all == Fetch(q)
               k == Ceil(Len(all) * validation_split, SplitDen)
           IN  /\ SplitAssertion
               /\ ds[c].cache[q].rows =
                     IF ds[c].train THEN SubSeq(all, k + 1, Len(all)) ELSE SubSeq(all, 1, k)

C3_Witness ==
    \E t, v \in Datasets : \E q \in QueryArgs :
        /\ BothLoaded(t, v, q)
        /\ Len(Fetch(q)) = 3 /\ validation_split = 2
        /\ Len(ValidationView(v, q)) = 2 /\ Len(TrainView(t, q)) = 1

(***************************************************************************)
(* C4.  A query that returns exactly one row (the symbol has one raw       *)
(* sample, or debug_single_sample_only limits the query) gives that row to *)
(* the training and to the validation view, and the call does not raise,   *)
(* whatever validation_split is.                                           *)
(***************************************************************************)
C4_SingleSampleInBothViews ==
    \A c \in Datasets : \A q \in QueryArgs :
        Len(Fetch(q)) = 1
        => /\ ds[c].cache[q].loaded => ds[c].cache[q].rows = Fetch(q)
           /\ ~(ds[c].pc = "failed" /\ ds[c].error_key = q
                  /\ ds[c].error = "AssertionError: validation_split")

C4_Witness ==
    \E t, v \in Datasets : \E q \in SourceSymbols :
        /\ BothLoaded(t, v, q)
        /\ ~SplitAssertion
        /\ Len(Fetch(q)) = 1
        /\ TrainView(t, q) = Fetch(q) /\ ValidationView(v, q) = Fetch(q)

(***************************************************************************)
(* C2.  As stated: the dataset built with train=True and the one built     *)
(* with train=False (same relation model, store, validation_split, seed)   *)
(* have no record (raw sample key, transformation chain, negation pairing) *)
(* in common, and every derived record of the full store (every raw sample *)
(* of every derivation path's source, with the path's chain and negation,  *)
(* under the path's leader) occurs in one of them.                         *)
(***************************************************************************)
Pairing(r) == <<r.key, r.transformations, r.negation, r.slash_id>>

RecordSet(c) == {Pairing(ds[c].primary_keys[i]) : i \in 1..Len(ds[c].primary_keys)}

TrainAndValidationDone(t, v) ==
    /\ ds[t].train /\ ~ds[v].train
    /\ ds[t].random_seed = ds[v].random_seed
    /\ ds[t].pc = "done" /\ ds[v].pc = "done"

\* The record of sample id along path p of leader l is in dataset c.
HasDerived(c, l, p, id) ==
    \E i \in 1..Len(ds[c].primary_keys) :
        /\ ds[c].symbol_keys[i] = leaders[l]
        /\ ds[c].primary_keys[i].key = id
        /\ ds[c].primary_keys[i].transformations = all_paths_to_symbol(leaders[l])[p].transformations
        /\ ds[c].primary_keys[i].negation = all_paths_to_symbol(leaders[l])[p].negation

C2_Original ==
    \A t, v \in Datasets :
        TrainAndValidationDone(t, v)
        => /\ RecordSet(t) \cap RecordSet(v) = {}
           /\ \A l \in 1..Len(leaders) : \A p \in 1..Len(all_paths_to_symbol(leaders[l])) :
                 \A id \in Range(RawSamples(<<all_paths_to_symbol(leaders[l])[p].key>>)) :
                     HasDerived(t, l, p, id) \/ HasDerived(v, l, p, id)

\* C2 as amended: a raw sample is the base of records of both datasets only
\* if the query for its symbol returns exactly one row; and, when
\* sample_limit is None, every row the query for a derivation path's source
\* returns is the base of a record (with the path's chain and negation,
\* under the path's leader) of at least one of the two datasets.
C2_SplitConsistentDatasets ==
    \A t, v \in Datasets :
        TrainAndValidationDone(t, v)
        => /\ \A i \in 1..Len(ds[t].primary_keys) : \A j \in 1..Len(ds[v].primary_keys) :
                 ds[t].primary_keys[i].key = ds[v].primary_keys[j].key
                 => Len(Fetch(<<store[ds[t].primary_keys[i].key]>>)) = 1
           /\ sample_limit = None
              => \A l \in 1..Len(leaders) : \A p \in 1..Len(all_paths_to_symbol(leaders[l])) :
                    \A id \in Range(Fetch(<<all_paths_to_symbol(leaders[l])[p].key>>)) :
                        HasDerived(t, l, p, id) \/ HasDerived(v, l, p, id)

C2_Witness ==
    \E t, v \in Datasets :
        /\ TrainAndValidationDone(t, v)
        /\ sample_limit = None /\ random_augmentation /\ ~debug_single_sample_only
        /\ Len(RawSamples(<<"A">>)) = 2 /\ Len(RawSamples(<<VertKey>>)) = 1
        /\ \E i \in 1..Len(ds[t].primary_keys) : ds[t].primary_keys[i].key = 2
        /\ \E j \in 1..Len(ds[v].primary_keys) : ds[v].primary_keys[j].key = 1
        /\ \E i \in 1..Len(ds[t].primary_keys) : \E j \in 1..Len(ds[v].primary_keys) :
              ds[t].primary_keys[i].key = 3 /\ ds[v].primary_keys[j].key = 3

(***************************************************************************)
(* The slash cycle.  emitted is the sequence of the records line 180       *)
(* produces, in the order it produces them, over the whole construction.   *)
(***************************************************************************)
Negated(records) == SelectSeq(records, LAMBDA r : r.negation # NoNegation)

\* The key at 0-based index i of the cycle's fixed order.
CycleKey(c, i) == ds[c].negation_cycle[(i % Len(ds[c].negation_cycle)) + 1]

(***************************************************************************)
(* C5.  As stated: counting the negated records in emission order from 0   *)
(* over the whole construction, the i-th negated record receives the slash *)
(* key at index i mod k of the group's fixed order.                        *)
(***************************************************************************)
C5_Original ==
    \A c \in Datasets :
        \A i \in 1..Len(Negated(ds[c].emitted)) :
            Negated(ds[c].emitted)[i].slash_id = CycleKey(c, i - 1)

\* C5 as amended: counting all records in emission order from 0, negated or
\* not, the i-th record receives the key at index i mod k: a negated record
\* receives the key at index (number of records emitted before it) mod k.
C5_CycleAdvancesPerRecord ==
    \A c \in Datasets :
        \A i \in 1..Len(ds[c].emitted) :
            ds[c].emitted[i].slash_id = CycleKey(c, i - 1)

C5_Witness ==
    \E c \in Datasets : \E i \in 1..Len(ds[c].emitted) :
        /\ Len(ds[c].negation_cycle) >= 2
        /\ i > Len(ds[c].negation_cycle)
        /\ ds[c].emitted[i].negation # NoNegation
        /\ ds[c].emitted[1].negation = NoNegation
        /\ ds[c].emitted[i].slash_id = CycleKey(c, i - 1)
        /\ ds[c].emitted[i].slash_id # CycleKey(c, Len(Negated(SubSeq(ds[c].emitted, 1, i))) - 1)

(***************************************************************************)
(* C6.  As stated: among the first k negated (non-augmented) records of a  *)
(* construction, k the number of slash keys, no slash key is assigned      *)
(* twice.                                                                  *)
(***************************************************************************)
C6_Original ==
    \A c \in Datasets :
        LET negated == Negated(ds[c].emitted)
            k == Len(ds[c].negation_cycle)
        IN  \A i, j \in 1..Min(k, Len(negated)) :
                i # j => negated[i].slash_id # negated[j].slash_id

\* C6 as amended: among any k records that follow each other in emission
\* order, negated or not, no slash key is assigned twice; two negated records
\* receive different keys when fewer than k records were emitted from the
\* first to the second.
C6_NoRepeatWithinCycle ==
    \A c \in Datasets :
        LET k == Len(ds[c].negation_cycle)
        IN  \A i, j \in 1..Len(ds[c].emitted) :
                (i < j /\ j - i < k) => ds[c].emitted[i].slash_id # ds[c].emitted[j].slash_id

C6_Witness ==
    \E c \in Datasets : \E i, j \in 1..Len(ds[c].emitted) :
        /\ Len(ds[c].negation_cycle) = 3
        /\ i < j /\ j - i < 3
        /\ ds[c].emitted[i].negation # NoNegation
        /\ ds[c].emitted[j].negation # NoNegation
        /\ ds[c].emitted[i].slash_id # ds[c].emitted[j].slash_id

(***************************************************************************)
(* C7.  If the vertical line group yields no slash sample in the active    *)
(* view, the construction does not complete: it passes no leader's         *)
(* assertion, and exposes no record.                                       *)
(***************************************************************************)
NoSlashSamples(c) ==
    /\ ds[c].cache[get_similarity_group(VertKey)].loaded
    /\ ds[c].negation_cycle = <<>>

C7_EmptySlashGroupIsFatal ==
    \A c \in Datasets :
        NoSlashSamples(c)
        => /\ ds[c].pc \in {"leader", "paths", "assert", "failed"}
           /\ ds[c].leader_idx = 1
           /\ ds[c].primary_keys = <<>>

C7_Witness ==
    \E c \in Datasets :
        /\ NoSlashSamples(c)
        /\ Len(RawSamples(<<"A">>)) = 2
        /\ ds[c].pc = "failed"
        /\ ds[c].error = "AssertionError: No samples found"

(***************************************************************************)
(* C8.  As stated: whenever the construction completes, every leader has   *)
(* at least one record in primary_keys.                                    *)
(***************************************************************************)
EveryLeaderHasRecords(c) ==
    \A l \in 1..Len(leaders) : leaders[l] \in Range(ds[c].symbol_keys)

C8_Original ==
    \A c \in Datasets : ds[c].pc = "done" => EveryLeaderHasRecords(c)

\* C8 as amended: the same when sample_limit is None or at least 1 (the
\* assertion precedes the cap, and a cap of 0 empties every class).
C8_LeadersNonEmpty ==
    \A c \in Datasets :
        (ds[c].pc = "done" /\ sample_limit # 0) => EveryLeaderHasRecords(c)

C8_Witness ==
    \E c \in Datasets :
        /\ ds[c].pc = "done" /\ sample_limit = 1
        /\ EveryLeaderHasRecords(c)
        /\ ds[3 - c].pc = "failed"
        /\ ds[3 - c].error = "AssertionError: No samples found"
        /\ ds[3 - c].negation_cycle # <<>>

(***************************************************************************)
(* C9.  When sample_limit is set, a leader contributes at most             *)
(* sample_limit records, and the records kept are a prefix of the uncapped *)
(* list, which is in insertion order (the paths in path order, the samples *)
(* of a path in store order, the augmentations last): an augmentation      *)
(* record is kept only if every non-augmented record of the leader is.     *)
(***************************************************************************)
\* The index of the derivation path of the leader that record r comes from.
PathIndex(d, r) ==
    CHOOSE p \in 1..Len(all_paths_to_symbol(leaders[d.leader_idx])) :
        LET path == all_paths_to_symbol(leaders[d.leader_idx])[p]
        IN  /\ path.key = store[r.key]
            /\ path.transformations = r.transformations
            /\ path.negation = r.negation

\* d.samples before the cap: derived records in path and store order, then
\* the augmentation_count augmentation records.
InsertionOrder(d) ==
    LET n == Len(d.samples) - d.augmentation_count
    IN  /\ n >= 0
        /\ \A i \in 1..Len(d.samples) : (d.samples[i].seed = None) <=> (i <= n)
        /\ \A i, j \in 1..n :
              i < j => \/ PathIndex(d, d.samples[i]) < PathIndex(d, d.samples[j])
                       \/ /\ PathIndex(d, d.samples[i]) = PathIndex(d, d.samples[j])
                          /\ d.samples[i].key < d.samples[j].key

RecordsOf(d, leader) == {i \in 1..Len(d.symbol_keys) : d.symbol_keys[i] = leader}

C9_CapKeepsPrefix ==
    [][\A c \in Datasets :
          (ds[c].pc = "cap" /\ ds'[c].pc = "extend" /\ sample_limit # None)
          => /\ InsertionOrder(ds[c])
             /\ Len(ds'[c].samples) = Min(sample_limit, Len(ds[c].samples))
             /\ ds'[c].samples = SubSeq(ds[c].samples, 1, Len(ds'[c].samples))
             /\ (\E i \in 1..Len(ds'[c].samples) : ds'[c].samples[i].seed # None)
                => \A i \in 1..Len(ds[c].samples) :
                      ds[c].samples[i].seed = None => i <= Len(ds'[c].samples)
             /\ \A l \in 1..Len(leaders) :
                   Cardinality(RecordsOf(ds[c], leaders[l])) <= sample_limit
      ]_vars

C9_Witness ==
    \E c \in Datasets :
        /\ ds[c].pc = "extend" /\ sample_limit = 2
        /\ ds[c].augmentation_count = 9
        /\ Len(ds[c].samples) = 2
        /\ ds[c].samples[1].seed = None /\ ds[c].samples[2].seed # None

(***************************************************************************)
(* C10.  As stated: within one construction no two augmentation records    *)
(* carry the same seed, every augmentation record has a seed that is not   *)
(* None, and every non-augmented record has the seed None.                 *)
(***************************************************************************)
\* Before the cap, the last augmentation_count records of samples are the
\* augmentation records.
SeedTagging(d) ==
    \A i \in 1..Len(d.samples) :
        IF i > Len(d.samples) - d.augmentation_count
        THEN d.samples[i].seed \in 0..(SeedSpace - 1)
        ELSE d.samples[i].seed = None

C10_Original ==
    \A c \in Datasets :
        /\ ds[c].pc = "cap" => SeedTagging(ds[c])
        /\ \A i, j \in 1..Len(ds[c].primary_keys) :
              (i # j /\ ds[c].primary_keys[i].seed # None)
              => ds[c].primary_keys[i].seed # ds[c].primary_keys[j].seed

\* C10 as amended: every augmentation record carries a seed that is not
\* None, the value random.randint(0, 2**32 - 1) returned for its slot, and
\* every non-augmented record carries None; the seeds of two slots are two
\* draws of the generator and can be equal.
C10_AugmentationSeeds ==
    \A c \in Datasets :
        /\ ds[c].pc = "cap" => SeedTagging(ds[c])
        /\ \A i \in 1..Len(ds[c].primary_keys) :
              ds[c].primary_keys[i].seed \in {None} \cup 0..(SeedSpace - 1)

C10_Witness ==
    \E c \in Datasets :
        /\ ds[c].pc = "cap"
        /\ ds[c].augmentation_count > 0
        /\ ds[c].samples[1].seed = None
        /\ \E i, j \in 1..Len(ds[c].samples) :
              /\ i # j
              /\ ds[c].samples[i].seed # None
              /\ ds[c].samples[i].seed = ds[c].samples[j].seed

(***************************************************************************)
(* Two constructions with the same arguments, train flag included, one     *)
(* after the other: the second starts with the generator in the state the  *)
(* first left it in.                                                       *)
(***************************************************************************)
InitSame(limits) ==
    /\ \E nA \in 0..MaxSamples, nVert \in 0..MaxSamples, nV \in 0..MaxSamples :
          store = StoreOf(nA, nVert, nV)
    /\ validation_split \in {0, 1}
    /\ sample_limit \in limits
    /\ random_augmentation \in BOOLEAN
    /\ debug_single_sample_only \in BOOLEAN
    /\ rng = 0
    /\ \E seed \in 0..MaxSeed : \E train \in BOOLEAN :
          ds = [c \in Datasets |-> NewDataset(train, seed)]
    /\ IdleAside

InitRepeat == InitSame({None, MaxLimit})

SpecRepeat == InitRepeat /\ [][Next]_vars

SameArguments(a, b) ==
    /\ ds[a].train = ds[b].train
    /\ ds[a].random_seed = ds[b].random_seed

(***************************************************************************)
(* C11.  Two constructions with the same relation model, store,            *)
(* validation_split, train flag, sample_limit and random_seed end alike    *)
(* and produce identical primary_keys and symbol_keys (same records, same  *)
(* seeds, same order), whatever the generator was used for before.         *)
(***************************************************************************)
C11_Deterministic ==
    \A a, b \in Datasets :
        (SameArguments(a, b) /\ ds[a].pc \in Final /\ ds[b].pc \in Final)
        => /\ ds[a].pc = ds[b].pc
           /\ ds[a].error = ds[b].error
           /\ ds[a].primary_keys = ds[b].primary_keys
           /\ ds[a].symbol_keys = ds[b].symbol_keys

C11_Witness ==
    /\ SameArguments(1, 2)
    /\ ds[1].pc = "done" /\ ds[2].pc = "done"
    /\ rng # RandomSeed(ds[1].random_seed)
    /\ ds[1].primary_keys = ds[2].primary_keys
    /\ \E i \in 1..Len(ds[2].primary_keys) : ds[2].primary_keys[i].seed # None

(***************************************************************************)
(* load_transformed_strokes(idx), lines 254-304.  Stroke data is kept      *)
(* symbolically: a sequence of layers, each the strokes of one stored      *)
(* sample and the matrices applied to them, in the order applied.          *)
(***************************************************************************)
\* load_stroke_data(primary_key)
load_stroke_data(primary_key) == <<[source |-> primary_key, ops |-> <<>>]>>

\* Lines 262-266: the matrix of a transformation of the record's chain.
ChainMatrix(transformation) ==
    [kind |-> IF transformation.is_rotation THEN "rotation" ELSE "reflection",
     arg |-> transformation.angle, of |-> "chain"]

\* Lines 270-282: random.randint(0, 2) picks the jitter; its magnitudes come
\* from np.random, which is not modelled.
RandomOperation(r) == (r \div 2) % 3

JitterMatrix(operation) ==
    [kind |-> CASE operation = 0 -> "rotation"
                [] operation = 1 -> "scale"
                [] operation = 2 -> "skew",
     arg |-> 0, of |-> "jitter"]

\* Lines 291-295: the slash's scale, rotation and translation.
NegationMatrices(negation) ==
    <<[kind |-> "scale", arg |-> 0, of |-> negation],
      [kind |-> "rotation", arg |-> 0, of |-> negation],
      [kind |-> "translation", arg |-> 0, of |-> negation]>>

\* ig.apply_transformations(stroke_data, trans_mats)
apply_transformations(stroke_data, trans_mats) ==
    [k \in 1..Len(stroke_data) |->
        [stroke_data[k] EXCEPT !.ops = @ \o trans_mats]]

RescaleMatrix == [kind |-> "rescale", arg |-> 1000, of |-> "viewport"]

\* sp.rescale_and_center_viewport(stroke_data, 1000, 1000)
rescale_and_center_viewport(stroke_data) ==
    apply_transformations(stroke_data, <<RescaleMatrix>>)

\* An overlay made before the base matrices are applied.
TransformedStrokesOverlayFirst(record, operation) ==
    LET chain == [i \in 1..Len(record.transformations) |-> ChainMatrix(record.transformations[i])]
        trans_mats == IF record.seed # None THEN Append(chain, JitterMatrix(operation)) ELSE chain
        slash == apply_transformations(load_stroke_data(record.slash_id),
                                       NegationMatrices(record.negation))
        overlaid == IF record.negation # NoNegation
                    THEN load_stroke_data(record.key) \o slash
                    ELSE load_stroke_data(record.key)
        transformed == IF trans_mats # <<>>
                       THEN apply_transformations(overlaid, trans_mats)
                       ELSE overlaid
    IN  rescale_and_center_viewport(transformed)

\* Lines 258-300: the stroke data returned for a record; operation is the
\* value of random.randint(0, 2) when the record has a seed.
TransformedStrokes(record, operation) ==
    LET chain == [i \in 1..Len(record.transformations) |-> ChainMatrix(record.transformations[i])]
        trans_mats == IF record.seed # None THEN Append(chain, JitterMatrix(operation)) ELSE chain
        transformed == IF trans_mats # <<>>
                       THEN apply_transformations(load_stroke_data(record.key), trans_mats)
                       ELSE load_stroke_data(record.key)
        slash == apply_transformations(load_stroke_data(record.slash_id),
                                       NegationMatrices(record.negation))
        overlaid == IF record.negation # NoNegation THEN transformed \o slash ELSE transformed
    IN  rescale_and_center_viewport(overlaid)

load_transformed_strokes(c, idx) ==
    LET record == ds[c].primary_keys[idx]
        seeded == RngNext(RandomSeed(record.seed))
    IN  /\ ds[c].pc = "done"
        /\ rng' = IF record.seed # None THEN seeded ELSE rng
        /\ rendered' = [dataset |-> c, idx |-> idx,
                        stroke_data |-> TransformedStrokes(record, RandomOperation(seeded)),
                        symbol_key |-> ds[c].symbol_keys[idx]]
        /\ UNCHANGED <<params, ds, metadata, attrs, amount>>

(***************************************************************************)
(* A caller that uses a finished dataset while another one, with the same  *)
(* arguments, is being constructed.                                        *)
(***************************************************************************)
InitLoad ==
    /\ \E nA \in 0..MaxSamples, nVert \in 0..MaxSamples :
          store = StoreOf(nA, nVert, 0)
    /\ validation_split = 0
    /\ sample_limit \in 1..MaxLimit
    /\ random_augmentation \in BOOLEAN
    /\ debug_single_sample_only = FALSE
    /\ rng = 0
    /\ \E seed \in 0..MaxSeed :
          ds = [c \in Datasets |-> NewDataset(TRUE, seed)]
    /\ IdleAside

NextLoad ==
    \/ Next
    \/ \E c \in Datasets : \E idx \in 1..Len(ds[c].primary_keys) :
          load_transformed_strokes(c, idx)

SpecLoad == InitLoad /\ [][NextLoad]_vars

\* C12 (as stated): the record list of a construction is the same when
\* load_transformed_strokes calls on another dataset are interleaved with it as
\* when it runs alone.  Dataset 1 is constructed alone; dataset 2 has the same
\* arguments and is constructed while dataset 1 is being read.
C12_Original ==
    (ds[1].pc = "done" /\ ds[2].pc \in Final /\ SameArguments(1, 2))
        => /\ ds[2].pc = "done"
           /\ ds[2].primary_keys = ds[1].primary_keys

\* The matrices of kind `of` in a layer's sequence of applied matrices.
OpsOf(layer, of) == SelectSeq(layer.ops, LAMBDA op : op.of = of)

RenderedRecord == ds[rendered.dataset].primary_keys[rendered.idx]

\* The last matrix of the layer is the viewport rescale, and no earlier one is.
RescaleLast(layer) ==
    /\ layer.ops # <<>>
    /\ layer.ops[Len(layer.ops)] = RescaleMatrix
    /\ \A k \in 1..(Len(layer.ops) - 1) : layer.ops[k].of # "viewport"

MaxLines == 2
Symbols == {"a", "b", "c"}

SeqsUpTo(S, n) == UNION {[1..k -> S] : k \in 0..n}

\* The lines of the files: empty, one symbol, or two symbols.
LineChoices == SeqsUpTo(Symbols, 2)

\* The loader is not used by the test.
IdleLoader ==
    /\ store = <<>>
    /\ validation_split = 0
    /\ sample_limit = None
    /\ random_augmentation = FALSE
    /\ debug_single_sample_only = FALSE
    /\ rng = 0
    /\ ds = [c \in Datasets |-> NewDataset(TRUE, 0)]

\* Lines 40-47: the set of a line's symbols; the line fails when a symbol repeats.
SymbolTwice(symbols) ==
    \E i, j \in 1..Len(symbols) : i < j /\ symbols[i] = symbols[j]

\* Line 48: the line's set is already in line_symbols.
LineTwice(file, k) ==
    \E j \in 1..(k - 1) : Range(file[j]) = Range(file[k])

\* Lines 52-56
SubsetLines(line_symbols) ==
    \E i, j \in 1..Len(line_symbols) : i # j /\ line_symbols[i] \subseteq line_symbols[j]

\* Lines 59-63
SharingLines(line_symbols) ==
    \E i, j \in 1..Len(line_symbols) : i # j /\ line_symbols[i] \cap line_symbols[j] # {}

\* Lines 33-63: the error of the first failing assertion for a file, "" if none.
FileError(file) ==
    LET line_symbols == [k \in 1..Len(file) |-> Range(file[k])]
        bad(k) == SymbolTwice(file[k]) \/ LineTwice(file, k)
    IN  IF \E k \in 1..Len(file) : bad(k)
        THEN LET k == CHOOSE k \in 1..Len(file) : bad(k) /\ \A j \in 1..(k - 1) : ~bad(j)
             IN  IF SymbolTwice(file[k]) THEN "symbol listed twice" ELSE "line listed twice"
        ELSE IF SubsetLines(line_symbols) THEN "line is a subset"
        ELSE IF SharingLines(line_symbols) THEN "lines share symbols"
        ELSE ""

RECURSIVE Flatten(_)
\* re.findall(r"\S+", file.read_text())
Flatten(file) == IF file = <<>> THEN <<>> ELSE Head(file) \o Flatten(Tail(file))

\* Lines 71-74: what is left of keys after one keys.remove(key) per distinct key.
RECURSIVE RemoveEach(_, _)
RemoveEach(keys, seen) ==
    IF keys = <<>> THEN <<>>
    ELSE IF Head(keys) \in seen
         THEN <<Head(keys)>> \o RemoveEach(Tail(keys), seen)
         ELSE RemoveEach(Tail(keys), seen \cup {Head(keys)})

\* A check that compares the file with nothing.
AlreadyListedNowhere(global_keys, key_set) == {}

\* Line 78: intersection = global_keys & key_set
AlreadyListed(global_keys, key_set) == global_keys \cap key_set

\* Lines 31-63: one iteration of the first loop.
CheckFile ==
    LET file == metadata.files[metadata.file_idx]
        last == metadata.file_idx = Len(metadata.files)
    IN  /\ metadata.pc = "files"
        /\ metadata' =
              IF FileError(file) # ""
              THEN [metadata EXCEPT !.pc = "failed", !.error = FileError(file)]
              ELSE IF last
                   THEN [metadata EXCEPT !.pc = "keys", !.file_idx = 1]
                   ELSE [metadata EXCEPT !.file_idx = @ + 1]
        /\ UNCHANGED <<params, rng, ds, rendered, attrs, amount>>

\* Lines 67-84: one iteration of the second loop.
CheckKeys ==
    LET keys == Flatten(metadata.files[metadata.file_idx])
        key_set == Range(keys)
        last == metadata.file_idx = Len(metadata.files)
    IN  /\ metadata.pc = "keys"
        /\ metadata' =
              IF RemoveEach(keys, {}) # <<>>
              THEN [metadata EXCEPT !.pc = "failed", !.error = "duplicate keys"]
              ELSE IF AlreadyListed(metadata.global_keys, key_set) # {}
              THEN [metadata EXCEPT !.pc = "failed", !.error = "keys in another file"]
              ELSE [metadata EXCEPT !.global_keys = @ \cup key_set,
                                    !.pc = IF last THEN "passed" ELSE "keys",
                                    !.file_idx = IF last THEN @ ELSE @ + 1]
        /\ UNCHANGED <<params, rng, ds, rendered, attrs, amount>>

\* Two similar* files: one of up to MaxLines lines, one of a single line.
InitSanity ==
    /\ IdleLoader
    /\ rendered = IdleRendered
    /\ attrs = IdleAttrs
    /\ amount = IdleAmount
    /\ \E f1 \in SeqsUpTo(LineChoices, MaxLines) :
       \E f2 \in [1..1 -> LineChoices] :
          metadata = [IdleMetadata EXCEPT !.pc = "files", !.files = <<f1, f2>>,
                                          !.file_idx = 1]

NextSanity == CheckFile \/ CheckKeys

SpecSanity == InitSanity /\ [][NextSanity]_vars

Lines == {<<f, k>> \in (1..Len(metadata.files)) \X (1..MaxLines + 1) :
             k <= Len(metadata.files[f])}

LineSet(fk) == Range(metadata.files[fk[1]][fk[2]])

\* C14: the test passes only if no symbol is listed twice in one line, no two
\* lines of a file are equal or one a subset of the other, no two lines share
\* a symbol, no key occurs twice within a file, and no key occurs in two files.
C14_PassedMeansDisjoint ==
    metadata.pc = "passed" =>
        /\ \A fk \in Lines : ~SymbolTwice(metadata.files[fk[1]][fk[2]])
        /\ \A x, y \in Lines :
              (x # y /\ x[1] = y[1]) => /\ LineSet(x) # LineSet(y)
                                        /\ ~(LineSet(x) \subseteq LineSet(y))
        /\ \A x, y \in Lines : x # y => LineSet(x) \cap LineSet(y) = {}
        /\ \A f \in 1..Len(metadata.files) :
              LET keys == Flatten(metadata.files[f])
              IN  \A i, j \in 1..Len(keys) : i # j => keys[i] # keys[j]
        /\ \A f, g \in 1..Len(metadata.files) :
              f # g => Range(Flatten(metadata.files[f]))
                          \cap Range(Flatten(metadata.files[g])) = {}

C14_Witness ==
    /\ metadata.pc = "passed"
    /\ Len(metadata.files[1]) = 2
    /\ metadata.files[2][1] # <<>>
    /\ metadata.global_keys # {}

(***************************************************************************)
(* load_dict_to_attrs_safely, src/handtex/utils.py lines 318-371.          *)
(* A value is its type and its text; int(value) fails on text that is not  *)
(* a number, str(value) never fails.                                       *)
(***************************************************************************)
\* get_type_hints(dataclass), in annotation order.
type_info == <<[attribute |-> "width", expected_type |-> "int"],
               [attribute |-> "height", expected_type |-> "int"],
               [attribute |-> "title", expected_type |-> "str"]>>

Attributes == {type_info[i].attribute : i \in 1..Len(type_info)}

Value(type, text) == [type |-> type, text |-> text]

\* The values a loaded dictionary holds.
DataValues == {Value("int", "3"), Value("str", "7"), Value("str", "x")}

DataKeys == Attributes \cup {"unknown"}

\* The object before the call.
Defaults == [a \in Attributes |-> IF a = "title" THEN Value("str", "") ELSE Value("int", "0")]

\* expected_type(value) raises.
Raises(expected_type, value) ==
    expected_type = "int" /\ value.type = "str" /\ value.text \notin {"3", "7"}

\* expected_type(value)
Coerce(expected_type, value) == Value(expected_type, value.text)

\* A failure that is logged and not returned.
OnExceptionSilent(a, attribute) == a

\* Lines 363-369: the except branch.
OnException(a, attribute) ==
    [a EXCEPT !.recoverable_exceptions = Append(@, attribute)]

\* Lines 353-369: one iteration of the loop over type_info.  skip_attrs is a
\* set; None and the empty list are both the empty set (line 354).
SetAttribute ==
    LET attribute == type_info[attrs.position].attribute
        expected_type == type_info[attrs.position].expected_type
        next == [attrs EXCEPT !.position = @ + 1,
                              !.pc = IF attrs.position = Len(type_info)
                                     THEN "returned" ELSE "loop"]
    IN  /\ attrs.pc = "loop"
        /\ attrs' =
              IF attrs.skip_attrs # {} /\ attribute \in attrs.skip_attrs
              THEN next
              ELSE IF attribute \notin DOMAIN attrs.data
              THEN next
              ELSE IF Raises(expected_type, attrs.data[attribute])
              THEN OnException(next, attribute)
              ELSE [next EXCEPT !.dataclass[attribute] =
                                    Coerce(expected_type, attrs.data[attribute]),
                                !.assigned = @ \cup {attribute}]
        /\ UNCHANGED <<params, rng, ds, rendered, metadata, amount>>

InitAttrs ==
    /\ IdleLoader
    /\ rendered = IdleRendered
    /\ metadata = IdleMetadata
    /\ amount = IdleAmount
    /\ \E keys \in SUBSET DataKeys : \E data \in [keys -> DataValues] :
       \E skip_attrs \in SUBSET Attributes :
          attrs = [pc |-> "loop", data |-> data, skip_attrs |-> skip_attrs,
                   before |-> Defaults, dataclass |-> Defaults, position |-> 1,
                   assigned |-> {}, recoverable_exceptions |-> <<>>]

NextAttrs == SetAttribute

SpecAttrs == InitAttrs /\ [][NextAttrs]_vars

\* The attributes the call tries to set, and those whose coercion fails.
Attempted == (Attributes \cap DOMAIN attrs.data) \ attrs.skip_attrs

Failing == {a \in Attempted :
               \E i \in 1..Len(type_info) :
                  type_info[i].attribute = a /\ Raises(type_info[i].expected_type, attrs.data[a])}

ExceptionsFor(a) ==
    Len(SelectSeq(attrs.recoverable_exceptions, LAMBDA e : e = a))

\* C15 (as stated): the returned list is empty exactly when every attribute
\* present in the data was set successfully.
C15_Original ==
    attrs.pc = "returned" =>
        (attrs.recoverable_exceptions = <<>>
            <=> (Attributes \cap DOMAIN attrs.data) \subseteq attrs.assigned)

\* C15: a failing attribute keeps its previous value and gets exactly one
\* exception, every other attempted attribute is set, and the returned list is
\* empty exactly when every attribute that is present in the data and not in
\* skip_attrs was set.
C15_RecoverableFailures ==
    attrs.pc = "returned" =>
        /\ \A a \in Failing :
              /\ attrs.dataclass[a] = attrs.before[a]
              /\ ExceptionsFor(a) = 1
        /\ \A a \in Attributes \ Failing : ExceptionsFor(a) = 0
        /\ attrs.assigned = Attempted \ Failing
        /\ \A a \in Attributes \ attrs.assigned : attrs.dataclass[a] = attrs.before[a]
        /\ attrs.recoverable_exceptions = <<>> <=> Attempted \subseteq attrs.assigned

\* A failure on the first attribute, a later one set, and a skipped one.
C15_Witness ==
    /\ attrs.pc = "returned"
    /\ "width" \in Failing
    /\ "height" \in attrs.assigned
    /\ attrs.dataclass["height"] # attrs.before["height"]
    /\ "title" \in attrs.skip_attrs \cap DOMAIN attrs.data
    /\ Len(attrs.recoverable_exceptions) = 1

(***************************************************************************)
(* augmentation_amount on two counts, lines 43-57.                         *)
(***************************************************************************)
MaxCount == 40

\* Lines 168-169, 196: the amounts for two real data counts.
ComputeAmounts ==
    /\ amount.pc = "counts"
    /\ amount' = [amount EXCEPT !.pc = "computed",
                                !.amounts = <<augmentation_amount(amount.smaller),
                                              augmentation_amount(amount.larger)>>]
    /\ UNCHANGED <<params, rng, ds, rendered, metadata, attrs>>

InitAmount ==
    /\ IdleLoader
    /\ rendered = IdleRendered
    /\ metadata = IdleMetadata
    /\ attrs = IdleAttrs
    /\ \E n \in 1..MaxCount, m \in 1..MaxCount :
          /\ n < m
          /\ amount = [IdleAmount EXCEPT !.pc = "counts", !.smaller = n, !.larger = m]

NextAmount == ComputeAmounts

SpecAmount == InitAmount /\ [][NextAmount]_vars

\* C16 (as stated): augmentation_amount(n) / n is non-increasing in n.
C16_Original ==
    amount.pc = "computed" =>
        amount.amounts[2] * amount.smaller <= amount.amounts[1] * amount.larger

\* C16: augmentation_amount(n) / n is non-increasing up to the truncation of
\* int(): for m > n >= 1, augmentation_amount(m) / m is below
\* (augmentation_amount(n) + 1) / n.
C16_RatioUpToTruncation ==
    amount.pc = "computed" =>
        amount.amounts[2] * amount.smaller < (amount.amounts[1] + 1) * amount.larger

\* 9 / 1 against 19 / 2.
C16_Witness ==
    /\ amount.pc = "computed"
    /\ amount.amounts[2] * amount.smaller > amount.amounts[1] * amount.larger
    /\ amount.larger = amount.smaller + 1

(***************************************************************************)
(* real_data_count, lines 165-169, against the records of lines 175-182.   *)
(***************************************************************************)
\* The leader whose samples list is being built.
CurrentLeader(c) == leaders[ds[c].leader_idx]

\* The records of the samples list that are not augmentations.
RealRecords(c) == SelectSeq(ds[c].samples, LAMBDA r : r.seed = None)

\* The number of rows the construction's view has for a symbol.
ViewCount(c, key) == Len(ds[c].cache[<<key>>].rows)

Loaded(c) == {q \in QueryArgs : ds[c].cache[q].loaded}

\* C18 (as stated): with validation_split >= 0.5 no construction completes.
C18_Original ==
    \A c \in Datasets : ~SplitAssertion => ds[c].pc # "done"

\* C18: with validation_split >= 0.5 a construction is rejected by the
\* assertion at the first query that returns no row or more than one row; it
\* completes only when every query it makes returns exactly one row, which
\* both modes get.
C18_RejectedUnlessSingleRows ==
    \A c \in Datasets :
        ~SplitAssertion =>
            /\ \A q \in Loaded(c) : ds[c].cache[q].rows = Fetch(q) /\ Len(Fetch(q)) = 1
            /\ ds[c].pc = "failed" =>
                  /\ ds[c].error = "AssertionError: validation_split"
                  /\ Len(Fetch(ds[c].error_key)) # 1
            /\ ds[c].pc = "done" => <<VertKey>> \in Loaded(c)

\* Both modes complete with validation_split = 0.6.
C18_Witness ==
    /\ ~SplitAssertion
    /\ ds[1].train /\ ~ds[2].train
    /\ ds[1].pc = "done" /\ ds[2].pc = "done"
    /\ ds[1].primary_keys # <<>>
    /\ ds[1].primary_keys = ds[2].primary_keys

(***************************************************************************)
(* The augmentation loop (lines 196-203) against the leader's derived      *)
(* records.                                                                *)
(***************************************************************************)
\* C19: the augmentation step keeps the derived records, appends only records
\* that carry a seed and whose sample key, chain, negation and slash key are
\* those of one derived record of the same leader, and leaves the slash cycle
\* where it was.
C19_AugmentationCopies ==
    [][\A c \in Datasets :
          (ds[c].pc = "augment" /\ ds'[c].pc = "cap")
          => LET derived == ds[c].samples
                 after == ds'[c].samples
             IN  /\ \A j \in 1..Len(derived) : derived[j].seed = None
                 /\ Len(after) >= Len(derived)
                 /\ SubSeq(after, 1, Len(derived)) = derived
                 /\ \A i \in (Len(derived) + 1)..Len(after) :
                       /\ after[i].seed # None
                       /\ \E j \in 1..Len(derived) : Pairing(after[i]) = Pairing(derived[j])
                 /\ ds'[c].cycle_pos = ds[c].cycle_pos
                 /\ ds'[c].negation_cycle = ds[c].negation_cycle
                 /\ ds'[c].emitted = ds[c].emitted
                 /\ ds'[c].leader_idx = ds[c].leader_idx
      ]_vars

\* Augmentation records of one leader that copy two different derived records,
\* one of them negated with a chain.
C19_Witness ==
    \E c \in Datasets :
        /\ ds[c].pc = "cap"
        /\ \E i, j \in 1..Len(ds[c].samples) :
              /\ ds[c].samples[i].seed # None /\ ds[c].samples[j].seed # None
              /\ Pairing(ds[c].samples[i]) # Pairing(ds[c].samples[j])
              /\ ds[c].samples[i].negation # NoNegation
              /\ ds[c].samples[i].transformations # <<>>

(***************************************************************************)
(* The split of the vertical line group (lines 151-152) against the split  *)
(* of its symbols as sources (lines 175-182).                              *)
(***************************************************************************)
\* The samples a dataset overlays as a slash (lines 289-297).
SlashSamples(c) ==
    {ds[c].primary_keys[i].slash_id :
        i \in {k \in 1..Len(ds[c].primary_keys) : ds[c].primary_keys[k].negation # NoNegation}}

\* The samples a dataset uses as the base strokes of a record (line 258).
BaseSamples(c) == {ds[c].primary_keys[i].key : i \in 1..Len(ds[c].primary_keys)}

\* C20 (as stated): when every symbol has at least two raw samples and
\* validation_split < 0.5, no sample that the training dataset uses as a slash
\* is a base sample of the validation dataset, and the other way round.
C20_Original ==
    \A t, v \in Datasets :
        (/\ TrainAndValidationDone(t, v)
         /\ SplitAssertion
         /\ ~debug_single_sample_only
         /\ \A i \in 1..Len(StoredKeys) : Len(RawSamples(<<StoredKeys[i]>>)) >= 2)
        => /\ SlashSamples(t) \cap BaseSamples(v) = {}
           /\ SlashSamples(v) \cap BaseSamples(t) = {}

====
